---- MODULE Spec2Model ----
(***************************************************************************)
(* The passkey (WebAuthn) auth service of coffeelist:                      *)
(* services/auth/src/server.js, and POST /users of the API service, which  *)
(* writes the same users table.  The state is the users and credentials    *)
(* tables, the session store, and the requests in flight: a handler runs   *)
(* from one await to the next as one step, on the copy of the session that *)
(* express-session loaded when the request arrived.                        *)
(***************************************************************************)
EXTENDS Integers, FiniteSets, Sequences, TLC

\* ------------------------------------------------------------------ bounds
MaxChal == 3        \* challenges the service issues in one run
MaxCounter == 2     \* largest signature counter an authenticator reports
MaxUserSeq == 6     \* largest value of the users.id sequence

\* ------------------------------------------------------- program constants
rpID == "localhost"
origin == "http://localhost:8080"

\* ------------------------------------------------------------ input domains
Sessions == {"s1", "s2"}          \* browser sessions (cookies)
Procs == {"p1", "p2"}             \* requests of the auth service in flight
Slots == Procs \cup {"api"}       \* and the request of the API service
CredIds == {1, 2}                 \* credential identifiers authenticators issue
Keys == {"k1", "k2"}              \* key pairs held by authenticators
\* req.body of POST /register/start and of POST /users, as
\* <<username, email>>: a field missing,
\* the name of a sample user, and a new identity
Identities == {<<"", "a@x">>, <<"alice", "">>, <<"james", "a@x">>,
               <<"alice", "a@x">>}
\* the same with a second new identity
TwoIdentities == Identities \cup {<<"bob", "b@x">>}
\* req.body.username of POST /login/start: none, a sample user, a new user
Usernames == {"", "james", "alice"}
Challenges == 1..MaxChal
Counters == 0..MaxCounter

\* the key pair an authenticator made for a credential
KeyOf(id) == IF id = 1 THEN "k1" ELSE "k2"

\* req.body.credential of POST /register/verify as the library reads it: the
\* challenge and origin of clientDataJSON, the RP ID and the flags (user
\* present and verified) of the authenticator data, whether the attestation
\* verifies, and the new credential
GoodRegistration(ch, id, ctr) ==
    [challenge |-> ch, origin |-> origin, rpId |-> rpID, flags |-> TRUE,
     attOk |-> TRUE,
     credentialID |-> id, credentialPublicKey |-> KeyOf(id), counter |-> ctr]

\* well-formed responses, and responses with one defect
RegistrationResponses ==
    {GoodRegistration(ch, id, ctr) :
        ch \in Challenges, id \in CredIds, ctr \in Counters}
    \cup {[GoodRegistration(ch, 1, 0) EXCEPT !.origin = "http://evil.example"] :
            ch \in Challenges}
    \cup {[GoodRegistration(ch, 1, 0) EXCEPT !.rpId = "evil.example"] :
            ch \in Challenges}
    \cup {[GoodRegistration(ch, 1, 0) EXCEPT !.flags = FALSE] :
            ch \in Challenges}
    \cup {[GoodRegistration(ch, 1, 0) EXCEPT !.attOk = FALSE] :
            ch \in Challenges}

\* credential.rawId: a byte array, or the base64url string a browser sends
RawIds == [form : {"bytes", "string"}, id : CredIds]

\* req.body.credential of POST /login/verify: the credential it names, the
\* challenge, origin and RP ID it was made for, the flags (user present and
\* verified) of the authenticator data, the key that signed it and the
\* signature counter it reports
GoodAuthentication(rawId, ch, key, ctr) ==
    [rawId |-> rawId, challenge |-> ch, origin |-> origin, rpId |-> rpID,
     flags |-> TRUE, sigKey |-> key, counter |-> ctr]

AuthenticationResponses ==
    {GoodAuthentication(rawId, ch, key, ctr) :
        rawId \in RawIds, ch \in Challenges, key \in Keys, ctr \in Counters}
    \cup {[GoodAuthentication([form |-> "bytes", id |-> id], ch, KeyOf(id), MaxCounter)
             EXCEPT !.origin = "http://evil.example"] :
            id \in CredIds, ch \in Challenges}
    \cup {[GoodAuthentication([form |-> "bytes", id |-> id], ch, KeyOf(id), MaxCounter)
             EXCEPT !.rpId = "evil.example"] :
            id \in CredIds, ch \in Challenges}
    \cup {[GoodAuthentication([form |-> "bytes", id |-> id], ch, KeyOf(id), MaxCounter)
             EXCEPT !.flags = FALSE] :
            id \in CredIds, ch \in Challenges}

\* ------------------------------------------------------------------- state
VARIABLES
    users,          \* the users table
    usersSeq,       \* the sequence behind users.id (SERIAL)
    credentials,    \* the credentials table
    sessions,       \* the session store: cookie -> session data
    nonce,          \* the challenges issued so far (each one fresh)
    inflight,       \* the requests in flight, each between two of its awaits
    last,           \* the response being sent, NoResponse once it is out
    okLog,          \* the assertions answered {verified: true}, in order
    issued          \* per session, the challenge its latest start issued

vars == <<users, usersSeq, credentials, sessions, nonce, inflight, last,
          okLog, issued>>

\* rows of 001_add_users.sql's sample data
SampleUsers ==
    { [id |-> 1, username |-> "james", email |-> "james@bluebottle.com"],
      [id |-> 2, username |-> "duane", email |-> "duane@stumptown.com"],
      [id |-> 3, username |-> "nikhil", email |-> "nikhil@coffelist.com"] }

NoUser == [userId |-> 0, username |-> "", email |-> ""]

\* a session with no field set (a new or destroyed session)
EmptySession ==
    [currentChallenge |-> 0, registrationUser |-> NoUser,
     userId |-> 0, username |-> ""]

NoRecord == [user_id |-> 0, credential_id |-> 0, public_key |-> "",
             counter |-> 0, username |-> "", email |-> ""]

\* allowCredentials of the options of POST /login/start: undefined, or the
\* list of credential identifiers
NoAllowList == [given |-> FALSE, ids |-> {}]

\* the index entries of the rows a transaction has inserted and not yet
\* committed or rolled back: none
NoEntries == [username |-> "", email |-> "", credential_id |-> 0]

\* a req.body that the handler has not read, or does not read at all
NoBody == [read |-> FALSE]

NoResponse == [op |-> "none", sid |-> "none", body |-> NoBody, status |-> 0,
               user |-> 0, username |-> "", email |-> "",
               allowCredentials |-> NoAllowList]

\* No request: the slot is free.  Of a request in flight: its route, the
\* await it is at, its cookie, req.session (the copy loaded on arrival and
\* changed by the handler since), req.body, the handler's locals, and the
\* index entries of the rows its transaction has inserted and not yet
\* committed.
IdleProc == [op |-> "none", pc |-> "idle", sid |-> "s1",
             session |-> EmptySession, body |-> NoBody,
             credentialRecord |-> NoRecord,
             allowCredentials |-> NoAllowList,
             user |-> [id |-> 0, username |-> "", email |-> ""],
             tx |-> NoEntries]

Init ==
    /\ users = SampleUsers
    /\ usersSeq = Cardinality(SampleUsers)
    /\ credentials = {}
    /\ sessions = [s \in Sessions |-> EmptySession]
    /\ nonce = 0
    /\ inflight = [p \in Slots |-> IdleProc]
    /\ last = NoResponse
    /\ okLog = <<>>
    /\ issued = [s \in Sessions |-> 0]

\* A request answered: its route, session and body, and of the response
\* res.status(status).json(...) the status and the user id it names (0 when
\* it names none).
Respond(op, s, body, status, user) ==
    last' = [op |-> op, sid |-> s, body |-> body, status |-> status,
             user |-> user, username |-> "", email |-> "",
             allowCredentials |-> NoAllowList]

\* res.json({verified: true, user: {id, username, email}}) of the verify
\* handlers: the public fields of the user the response names.
RespondUser(op, s, body, id, username, email) ==
    last' = [op |-> op, sid |-> s, body |-> body, status |-> 200,
             user |-> id, username |-> username, email |-> email,
             allowCredentials |-> NoAllowList]

\* res.json(options) of POST /login/start: the options carry the
\* allowCredentials they were generated with.
RespondOptions(s, username, allowCredentials) ==
    last' = [op |-> "login/start", sid |-> s,
             body |-> [username |-> username],
             status |-> 200, user |-> 0, username |-> "", email |-> "",
             allowCredentials |-> allowCredentials]

\* The response has gone out.  Every handler step below starts from here:
\* the steps of the requests are taken one at a time, in any order.
Sent ==
    /\ last.op # "none"
    /\ last' = NoResponse
    /\ UNCHANGED <<users, usersSeq, credentials, sessions, nonce, inflight,
                   okLog, issued>>

\* The session middleware on arrival (lines 36-50): the request takes a free
\* slot and req.session is the stored session of its cookie.
Arrive(p, op, pc, s, body) ==
    inflight' = [inflight EXCEPT ![p] =
                    [IdleProc EXCEPT !.op = op, !.pc = pc, !.sid = s,
                                     !.session = sessions[s],
                                     !.body = body]]

\* The request is over: its slot is free again.
Leave(p) == inflight' = [inflight EXCEPT ![p] = IdleProc]

\* The session middleware when a response ends: a req.session the handler
\* changed is written to the store whole, whatever the store holds by then.
SaveSession(s, session) == sessions' = [sessions EXCEPT ![s] = session]

\* the challenges that the starts in flight are still to draw
Reserved ==
    Cardinality({p \in Procs :
                    inflight[p].op \in {"register/start", "login/start"}})

\* ------------------------------------------------------------------ helpers

\* bufferToBase64url(buffer): Buffer.from(buffer).toString('base64') made URL
\* safe.  Of the bytes of a credential id k it is the identifier k; of a
\* base64url STRING it is the encoding of the string's characters, which is
\* another, longer string (written -k) and not the identifier.
bufferToBase64url(buffer) ==
    IF buffer.form = "bytes" THEN buffer.id ELSE 0 - buffer.id

\* verifyRegistrationResponse of @simplewebauthn/server as called at lines
\* 175-180.  The library is not part of the sources; it is modelled on the
\* rules the specification gives for register verify (signature validity,
\* origin match, challenge match, flags, against the expected challenge,
\* origin and relying party).  A response that does not match throws, and
\* the handler answers 500 (lines 238-241); one whose attestation does not
\* verify reports verified = false, and the handler answers 400 (182-184).
verifyRegistrationResponse(response, expectedChallenge, expectedOrigin, expectedRPID) ==
    IF \/ response.challenge # expectedChallenge
       \/ response.origin # expectedOrigin
       \/ response.rpId # expectedRPID
       \/ ~response.flags
    THEN "throw"
    ELSE IF response.attOk THEN "verified" ELSE "unverified"

\* The counter rule of login verify, from the specification: the reported
\* counter must be strictly greater than the stored counter handed to the
\* verification; a counter that is not is rejected.
CounterAccepted(counter, storedCounter) ==
    counter > storedCounter

\* verifyAuthenticationResponse of @simplewebauthn/server as called at lines
\* 319-329, with authenticator = the credential row the handler read.  The
\* library is not part of the sources; it is modelled on the rules the
\* specification gives for login verify (expected challenge, origin and
\* relying party, flags, the stored public key and the stored counter).  A
\* response that does not match throws, and the handler answers 500 (lines
\* 356-359); one whose signature does not verify under the stored key
\* reports verified = false, and the handler answers 400 (lines 331-333).
verifyAuthenticationResponse(response, expectedChallenge, expectedOrigin, expectedRPID, authenticator) ==
    IF \/ response.challenge # expectedChallenge
       \/ response.origin # expectedOrigin
       \/ response.rpId # expectedRPID
       \/ ~response.flags
       \/ ~CounterAccepted(response.counter, authenticator.counter)
    THEN "throw"
    ELSE IF response.sigKey = authenticator.public_key
         THEN "verified" ELSE "unverified"

\* SELECT id FROM users WHERE username = $1 OR email = $2
existingUser(username, email) ==
    {u \in users : u.username = username \/ u.email = email}

\* The same SELECT with its JOIN condition left out: the credential row
\* joined to every user.
SelectCredentialCrossJoin(credentialID) ==
    { [user_id |-> u.id, credential_id |-> c.credential_id,
       public_key |-> c.public_key, counter |-> c.counter,
       username |-> u.username, email |-> u.email] :
      <<c, u>> \in {cu \in credentials \X users :
                      cu[1].credential_id = credentialID} }

\* The same SELECT without its WHERE clause: every credential row, whatever
\* identifier was asked for.
SelectCredentialAny(credentialID) ==
    { [user_id |-> u.id, credential_id |-> c.credential_id,
       public_key |-> c.public_key, counter |-> c.counter,
       username |-> u.username, email |-> u.email] :
      <<c, u>> \in {cu \in credentials \X users :
                      cu[1].user_id = cu[2].id} }

\* SELECT c.*, u.id as user_id, u.username, u.email FROM credentials c
\* JOIN users u ON c.user_id = u.id WHERE c.credential_id = $1
SelectCredential(credentialID) ==
    { [user_id |-> u.id, credential_id |-> c.credential_id,
       public_key |-> c.public_key, counter |-> c.counter,
       username |-> u.username, email |-> u.email] :
      <<c, u>> \in {cu \in credentials \X users :
                      /\ cu[1].user_id = cu[2].id
                      /\ cu[1].credential_id = credentialID} }

\* SELECT c.credential_id, c.transports FROM credentials c
\* JOIN users u ON c.user_id = u.id WHERE u.username = $1
SelectUserCredentials(username) ==
    {c \in credentials :
        \E u \in users : u.id = c.user_id /\ u.username = username}

\* another transaction in progress has inserted a users row with this
\* username (its entry in users_username_key is not yet committed)
UsernameHeld(p, username) ==
    \E q \in Slots \ {p} : inflight[q].tx.username = username

\* the same for users_email_key
EmailHeld(p, email) ==
    \E q \in Slots \ {p} : inflight[q].tx.email = email

\* the same for credentials_credential_id_key
CredentialHeld(p, credentialID) ==
    \E q \in Slots \ {p} : inflight[q].tx.credential_id = credentialID

\* A users table whose email column is not UNIQUE: the INSERT is refused
\* for a stored username only.
InsertUserUsernameOnly(p, username, email, passedUsername) ==
    IF ~passedUsername /\ \E u \in users : u.username = username
    THEN "errorUsername"
    ELSE IF ~passedUsername /\ UsernameHeld(p, username)
    THEN "waitUsername"
    ELSE "inserted"

\* INSERT INTO users (username, email) by transaction p, once its id is
\* drawn: PostgreSQL enters the row into the UNIQUE indexes in the order of
\* the columns, username and then email.  At each index a committed row
\* with the same key raises error 23505; a row with the same key inserted
\* by a transaction still in progress makes the INSERT wait for the end of
\* that transaction.  passedUsername: the INSERT waited at the email index
\* and holds its username entry already.
InsertUser(p, username, email, passedUsername) ==
    IF ~passedUsername /\ \E u \in users : u.username = username
    THEN "errorUsername"
    ELSE IF ~passedUsername /\ UsernameHeld(p, username)
    THEN "waitUsername"
    ELSE IF \E u \in users : u.email = email
    THEN "errorEmail"
    ELSE IF EmailHeld(p, email)
    THEN "waitEmail"
    ELSE "inserted"

\* The index entries a transaction holds after its INSERT INTO users came
\* to outcome.  A statement that fails aborts its transaction there and
\* then: the entries are dropped and the statements that wait for them go
\* on, before the ROLLBACK of line 233 is sent.
EntriesAfter(tx, outcome, username, email) ==
    IF outcome = "inserted"
    THEN [tx EXCEPT !.username = username, !.email = email]
    ELSE IF outcome = "waitEmail"
    THEN [tx EXCEPT !.username = username]
    ELSE IF outcome = "waitUsername"
    THEN tx
    ELSE NoEntries

\* the await a request is at after its INSERT INTO users came to outcome
AfterInsertUser(outcome) ==
    IF outcome = "inserted" THEN "insertCredential"
    ELSE IF outcome \in {"errorUsername", "errorEmail"} THEN "rollback"
    ELSE outcome

\* INSERT INTO credentials by transaction p: credential_id is UNIQUE, with
\* the same rule; the user row it references is the transaction's own.
InsertCredential(p, credentialID) ==
    IF \E c \in credentials : c.credential_id = credentialID
    THEN "error"
    ELSE IF CredentialHeld(p, credentialID)
    THEN "waitCredential"
    ELSE "inserted"

\* A credentials INSERT that leaves the counter to the column's DEFAULT 0
\* instead of storing the one the authenticator reported.
CredentialRowDefaultCounter(user, info) ==
    [user_id |-> user.id, credential_id |-> info.credentialID,
     public_key |-> info.credentialPublicKey, counter |-> 0]

\* the row of INSERT INTO credentials (lines 201-212): the id of the user
\* row just inserted, and the identifier, public key and counter of
\* verification.registrationInfo
CredentialRow(user, info) ==
    [user_id |-> user.id, credential_id |-> info.credentialID,
     public_key |-> info.credentialPublicKey, counter |-> info.counter]
\* ------------------------------------------------------- registration flow

\* A start that asks for the username only: if (!username)
RegisterStartBeginEmailOptional(p, s, username, email) ==
    /\ last.op = "none"
    /\ inflight[p].op = "none"
    /\ IF username = ""
       THEN /\ Respond("register/start", s,
                         [username |-> username, email |-> email], 400, 0)
            /\ UNCHANGED inflight
       ELSE /\ nonce + Reserved < MaxChal
            /\ Arrive(p, "register/start", "select", s,
                        [username |-> username, email |-> email])
            /\ UNCHANGED last
    /\ UNCHANGED <<users, usersSeq, credentials, sessions, nonce, okLog,
                   issued>>

\* POST /register/start, lines 115-121: the request arrives and the body is
\* validated; a valid one goes on to the SELECT.
RegisterStartBegin(p, s, username, email) ==
    /\ last.op = "none"
    /\ inflight[p].op = "none"
    /\ IF username = "" \/ email = ""
       THEN /\ Respond("register/start", s,
                         [username |-> username, email |-> email], 400, 0)
            /\ UNCHANGED inflight
       ELSE /\ nonce + Reserved < MaxChal
            /\ Arrive(p, "register/start", "select", s,
                        [username |-> username, email |-> email])
            /\ UNCHANGED last
    /\ UNCHANGED <<users, usersSeq, credentials, sessions, nonce, okLog,
                   issued>>

\* A start that looks for the username only:
\* SELECT id FROM users WHERE username = $1
RegisterStartSelectUsernameOnly(p) ==
    /\ last.op = "none"
    /\ inflight[p].op = "register/start"
    /\ inflight[p].pc = "select"
    /\ LET username == inflight[p].body.username
           email == inflight[p].body.email
       IN  IF \E u \in users : u.username = username
           THEN /\ Respond("register/start", inflight[p].sid,
                           inflight[p].body, 409, 0)
                /\ Leave(p)
           ELSE /\ inflight' = [inflight EXCEPT ![p].pc = "save"]
                /\ UNCHANGED last
    /\ UNCHANGED <<users, usersSeq, credentials, sessions, nonce, okLog,
                   issued>>

\* POST /register/start, lines 123-131: the users table is read for the
\* username and the email.
RegisterStartSelect(p) ==
    /\ last.op = "none"
    /\ inflight[p].op = "register/start"
    /\ inflight[p].pc = "select"
    /\ LET username == inflight[p].body.username
           email == inflight[p].body.email
       IN  IF existingUser(username, email) # {}
           THEN /\ Respond("register/start", inflight[p].sid,
                           inflight[p].body, 409, 0)
                /\ Leave(p)
           ELSE /\ inflight' = [inflight EXCEPT ![p].pc = "save"]
                /\ UNCHANGED last
    /\ UNCHANGED <<users, usersSeq, credentials, sessions, nonce, okLog,
                   issued>>

\* POST /register/start, lines 133-156: the options are generated with a
\* fresh challenge, req.session takes the challenge and the identity, and
\* is saved as the response ends.  The generated user id is fresh too: it is
\* given the number of the challenge.
RegisterStartSave(p) ==
    /\ last.op = "none"
    /\ inflight[p].op = "register/start"
    /\ inflight[p].pc = "save"
    /\ LET s == inflight[p].sid
           username == inflight[p].body.username
           email == inflight[p].body.email
       IN  /\ nonce' = nonce + 1
           /\ issued' = [issued EXCEPT ![s] = nonce + 1]
           /\ SaveSession(s,
                  [inflight[p].session EXCEPT
                      !.currentChallenge = nonce + 1,
                      !.registrationUser =
                          [userId |-> nonce + 1, username |-> username,
                           email |-> email]])
           /\ Respond("register/start", s, inflight[p].body, 200, 0)
    /\ Leave(p)
    /\ UNCHANGED <<users, usersSeq, credentials, okLog>>

\* POST /register/verify, lines 164-172: the request arrives and the handler
\* reads the expected challenge and the pending identity from req.session.
RegisterVerifyBegin(p, s) ==
    /\ last.op = "none"
    /\ inflight[p].op = "none"
    /\ LET expectedChallenge == sessions[s].currentChallenge
           userData == sessions[s].registrationUser
       IN  IF expectedChallenge = 0 \/ userData = NoUser
           THEN /\ Respond("register/verify", s, NoBody, 400, 0)
                /\ UNCHANGED inflight
           ELSE /\ Arrive(p, "register/verify", "verify", s, NoBody)
                /\ UNCHANGED last
    /\ UNCHANGED <<users, usersSeq, credentials, sessions, nonce, okLog,
                   issued>>

\* POST /register/verify, lines 174-186: the response is verified against
\* the challenge of req.session.  The request body is first used here, so it
\* is drawn here.
RegisterVerifyVerify(p, credential) ==
    /\ last.op = "none"
    /\ inflight[p].op = "register/verify"
    /\ inflight[p].pc = "verify"
    /\ LET s == inflight[p].sid
           expectedChallenge == inflight[p].session.currentChallenge
           verification == verifyRegistrationResponse(credential,
                               expectedChallenge, origin, rpID)
       IN  IF verification = "throw"
           THEN /\ Respond("register/verify", s, credential, 500, 0)
                /\ Leave(p)
           ELSE IF verification = "unverified"
           THEN /\ Respond("register/verify", s, credential, 400, 0)
                /\ Leave(p)
           ELSE /\ inflight' = [inflight EXCEPT ![p].pc = "connect",
                                                ![p].body = credential]
                /\ UNCHANGED last
    /\ UNCHANGED <<users, usersSeq, credentials, sessions, nonce, okLog,
                   issued>>

\* POST /register/verify, line 189: a client is taken from the pool.
RegisterVerifyConnect(p) ==
    /\ last.op = "none"
    /\ inflight[p].op = "register/verify"
    /\ inflight[p].pc = "connect"
    /\ inflight' = [inflight EXCEPT ![p].pc = "begin"]
    /\ UNCHANGED <<users, usersSeq, credentials, sessions, nonce, okLog,
                   issued, last>>

\* POST /register/verify, line 191: BEGIN.
RegisterVerifyBeginTransaction(p) ==
    /\ last.op = "none"
    /\ inflight[p].op = "register/verify"
    /\ inflight[p].pc = "begin"
    /\ inflight' = [inflight EXCEPT ![p].pc = "insertUser"]
    /\ UNCHANGED <<users, usersSeq, credentials, sessions, nonce, okLog,
                   issued, last>>

\* POST /register/verify, lines 193-198: INSERT INTO users.  The id is
\* drawn from the sequence when the statement starts, whatever becomes of
\* it; the row is the transaction's own until COMMIT.  A statement that
\* waits for another transaction goes on when that one has ended; one that
\* fails aborts the transaction, and the handler goes to its catch.
RegisterVerifyInsertUser(p) ==
    /\ last.op = "none"
    /\ inflight[p].op = "register/verify"
    /\ inflight[p].pc \in {"insertUser", "waitUsername", "waitEmail"}
    /\ LET userData == inflight[p].session.registrationUser
           starts == inflight[p].pc = "insertUser"
           id == IF starts THEN usersSeq + 1 ELSE inflight[p].user.id
           outcome == InsertUser(p, userData.username, userData.email,
                                 inflight[p].pc = "waitEmail")
       IN  /\ starts => usersSeq < MaxUserSeq
           /\ outcome # inflight[p].pc
           /\ usersSeq' = IF starts THEN usersSeq + 1 ELSE usersSeq
           /\ inflight' = [inflight EXCEPT
                  ![p].pc = AfterInsertUser(outcome),
                  ![p].user = [id |-> id, username |-> userData.username,
                               email |-> userData.email],
                  ![p].tx = EntriesAfter(@, outcome, userData.username,
                                         userData.email)]
    /\ UNCHANGED <<users, credentials, sessions, nonce, okLog, issued, last>>

\* The two INSERTs run outside a transaction: when the second one fails the
\* row of the first one stays.
RegisterVerifyInsertCredentialKeepsUser(p) ==
    /\ last.op = "none"
    /\ inflight[p].op = "register/verify"
    /\ inflight[p].pc \in {"insertCredential", "waitCredential"}
    /\ LET credentialID == inflight[p].body.credentialID
           outcome == InsertCredential(p, credentialID)
       IN  /\ outcome # inflight[p].pc
           /\ users' = IF outcome = "error"
                       THEN users \cup {inflight[p].user} ELSE users
           /\ inflight' = [inflight EXCEPT
                  ![p].pc = IF outcome = "inserted" THEN "commit"
                            ELSE IF outcome = "error" THEN "rollback"
                            ELSE outcome,
                  ![p].tx = IF outcome = "inserted"
                            THEN [@ EXCEPT !.credential_id = credentialID]
                            ELSE IF outcome = "error" THEN NoEntries
                            ELSE @]
    /\ UNCHANGED <<usersSeq, credentials, sessions, nonce, okLog,
                   issued, last>>

\* POST /register/verify, lines 200-212: INSERT INTO credentials, for the
\* user row just inserted.  A statement that fails aborts the transaction:
\* the user row and the index entries of the transaction are dropped there
\* and then.
RegisterVerifyInsertCredential(p) ==
    /\ last.op = "none"
    /\ inflight[p].op = "register/verify"
    /\ inflight[p].pc \in {"insertCredential", "waitCredential"}
    /\ LET credentialID == inflight[p].body.credentialID
           outcome == InsertCredential(p, credentialID)
       IN  /\ outcome # inflight[p].pc
           /\ inflight' = [inflight EXCEPT
                  ![p].pc = IF outcome = "inserted" THEN "commit"
                            ELSE IF outcome = "error" THEN "rollback"
                            ELSE outcome,
                  ![p].tx = IF outcome = "inserted"
                            THEN [@ EXCEPT !.credential_id = credentialID]
                            ELSE IF outcome = "error" THEN NoEntries
                            ELSE @]
    /\ UNCHANGED <<users, usersSeq, credentials, sessions, nonce, okLog,
                   issued, last>>

\* POST /register/verify, line 214: COMMIT.  The two rows of the transaction
\* enter the tables together.
RegisterVerifyCommit(p) ==
    /\ last.op = "none"
    /\ inflight[p].op = "register/verify"
    /\ inflight[p].pc = "commit"
    /\ users' = users \cup {inflight[p].user}
    /\ credentials' = credentials \cup
           {CredentialRow(inflight[p].user, inflight[p].body)}
    /\ inflight' = [inflight EXCEPT ![p].pc = "save", ![p].tx = NoEntries]
    /\ UNCHANGED <<usersSeq, sessions, nonce, okLog, issued, last>>

\* POST /register/verify, lines 232-241: an INSERT threw and the
\* transaction is aborted; after the ROLLBACK the client is released and the
\* outer catch answers 500.  req.session is as loaded and is not saved.
RegisterVerifyRollback(p) ==
    /\ last.op = "none"
    /\ inflight[p].op = "register/verify"
    /\ inflight[p].pc = "rollback"
    /\ Respond("register/verify", inflight[p].sid, inflight[p].body, 500, 0)
    /\ Leave(p)
    /\ UNCHANGED <<users, usersSeq, credentials, sessions, nonce, okLog,
                   issued>>

\* req.session of POST /register/verify after lines 216-222
RegisterSession(session, user) ==
    [session EXCEPT !.currentChallenge = 0,
                    !.registrationUser = NoUser,
                    !.userId = user.id,
                    !.username = user.username]

\* POST /register/verify, lines 216-231 and 236: the transaction committed,
\* req.session drops the registration data and takes the user, and is saved
\* as the response ends; the client is released.
RegisterVerifySave(p) ==
    /\ last.op = "none"
    /\ inflight[p].op = "register/verify"
    /\ inflight[p].pc = "save"
    /\ LET s == inflight[p].sid
           user == inflight[p].user
       IN  /\ SaveSession(s, RegisterSession(inflight[p].session, user))
           /\ RespondUser("register/verify", s, inflight[p].body,
                          user.id, user.username, user.email)
    /\ Leave(p)
    /\ UNCHANGED <<users, usersSeq, credentials, nonce, okLog, issued>>

\* ----------------------------------------------------- authentication flow

\* POST /login/start, lines 247-254: the request arrives; with a username it
\* goes on to the SELECT, without one to the options.
LoginStartBegin(p, s, username) ==
    /\ last.op = "none"
    /\ inflight[p].op = "none"
    /\ nonce + Reserved < MaxChal
    /\ Arrive(p, "login/start", IF username = "" THEN "save" ELSE "select",
              s, [username |-> username])
    /\ UNCHANGED <<users, usersSeq, credentials, sessions, nonce, okLog,
                   issued, last>>

\* allowCredentials of POST /login/start, lines 251-272: undefined without a
\* username, else the identifiers of the rows selected for the username
allowCredentials(username) ==
    IF username = "" THEN NoAllowList
    ELSE [given |-> TRUE,
          ids |-> {c.credential_id : c \in SelectUserCredentials(username)}]

\* POST /login/start, lines 255-272: the credentials of the username are
\* read; without a row the request ends.
LoginStartSelect(p) ==
    /\ last.op = "none"
    /\ inflight[p].op = "login/start"
    /\ inflight[p].pc = "select"
    /\ LET username == inflight[p].body.username
       IN  IF SelectUserCredentials(username) = {}
           THEN /\ Respond("login/start", inflight[p].sid, inflight[p].body,
                           404, 0)
                /\ Leave(p)
           ELSE /\ inflight' = [inflight EXCEPT
                                   ![p].pc = "save",
                                   ![p].allowCredentials =
                                       allowCredentials(username)]
                /\ UNCHANGED last
    /\ UNCHANGED <<users, usersSeq, credentials, sessions, nonce, okLog,
                   issued>>

\* POST /login/start, lines 274-284: the options are generated with a fresh
\* challenge, req.session takes it, and is saved as the response ends.
LoginStartSave(p) ==
    /\ last.op = "none"
    /\ inflight[p].op = "login/start"
    /\ inflight[p].pc = "save"
    /\ LET s == inflight[p].sid
       IN  /\ nonce' = nonce + 1
           /\ issued' = [issued EXCEPT ![s] = nonce + 1]
           /\ SaveSession(s, [inflight[p].session EXCEPT
                                 !.currentChallenge = nonce + 1])
           /\ RespondOptions(s, inflight[p].body.username,
                             inflight[p].allowCredentials)
    /\ Leave(p)
    /\ UNCHANGED <<users, usersSeq, credentials, okLog>>

\* POST /login/verify without the check of lines 297-299: the request goes on
\* to read the credential whatever the session holds.
LoginVerifyBeginUnchecked(p, s) ==
    /\ last.op = "none"
    /\ inflight[p].op = "none"
    /\ Arrive(p, "login/verify", "select", s, NoBody)
    /\ UNCHANGED <<users, usersSeq, credentials, sessions, nonce, okLog,
                   issued, last>>

\* POST /login/verify, lines 292-299: the request arrives and the handler
\* reads the expected challenge from req.session.
LoginVerifyBegin(p, s) ==
    /\ last.op = "none"
    /\ inflight[p].op = "none"
    /\ IF sessions[s].currentChallenge = 0
       THEN /\ Respond("login/verify", s, NoBody, 400, 0)
            /\ UNCHANGED inflight
       ELSE /\ Arrive(p, "login/verify", "select", s, NoBody)
            /\ UNCHANGED last
    /\ UNCHANGED <<users, usersSeq, credentials, sessions, nonce, okLog,
                   issued>>

\* POST /login/verify, lines 301-316: the credential is read from the
\* store; without a row the request ends.  The request body is first used
\* here, so it is drawn here.
LoginVerifySelect(p, credential) ==
    /\ last.op = "none"
    /\ inflight[p].op = "login/verify"
    /\ inflight[p].pc = "select"
    /\ LET s == inflight[p].sid
           credentialID == bufferToBase64url(credential.rawId)
           result == SelectCredential(credentialID)
       IN  IF result = {}
           THEN /\ Respond("login/verify", s, credential, 404, 0)
                /\ Leave(p)
           ELSE /\ inflight' = [inflight EXCEPT
                                   ![p].pc = "verify",
                                   ![p].credentialRecord =
                                       CHOOSE r \in result : TRUE,
                                   ![p].body = credential]
                /\ UNCHANGED last
    /\ UNCHANGED <<users, usersSeq, credentials, sessions, nonce, okLog,
                   issued>>

\* POST /login/verify, lines 318-333: the assertion is verified against the
\* challenge of req.session and the row that was read, whatever the store
\* holds by now.
LoginVerifyVerify(p) ==
    /\ last.op = "none"
    /\ inflight[p].op = "login/verify"
    /\ inflight[p].pc = "verify"
    /\ LET s == inflight[p].sid
           credential == inflight[p].body
           expectedChallenge == inflight[p].session.currentChallenge
           verification == verifyAuthenticationResponse(credential,
                               expectedChallenge, origin, rpID,
                               inflight[p].credentialRecord)
       IN  IF verification = "throw"
           THEN /\ Respond("login/verify", s, credential, 500, 0)
                /\ Leave(p)
           ELSE IF verification = "unverified"
           THEN /\ Respond("login/verify", s, credential, 400, 0)
                /\ Leave(p)
           ELSE /\ inflight' = [inflight EXCEPT ![p].pc = "update"]
                /\ UNCHANGED last
    /\ UNCHANGED <<users, usersSeq, credentials, sessions, nonce, okLog,
                   issued>>

\* The UPDATE without its WHERE clause: the counter of every row is set.
UpdateCounterAll(newCounter, credentialID) ==
    { [c EXCEPT !.counter = newCounter] : c \in credentials }

\* UPDATE credentials SET counter = $1 WHERE credential_id = $2
UpdateCounter(newCounter, credentialID) ==
    { IF c.credential_id = credentialID
      THEN [c EXCEPT !.counter = newCounter] ELSE c : c \in credentials }

\* POST /login/verify, lines 335-339: the reported counter is written to the
\* row of the credential.
LoginVerifyUpdate(p) ==
    /\ last.op = "none"
    /\ inflight[p].op = "login/verify"
    /\ inflight[p].pc = "update"
    /\ credentials' = UpdateCounter(inflight[p].body.counter,
                                    inflight[p].credentialRecord.credential_id)
    /\ inflight' = [inflight EXCEPT ![p].pc = "save"]
    /\ UNCHANGED <<users, usersSeq, sessions, nonce, okLog, issued, last>>

\* A session bound by halves: the user id is set and the username is not.
LoginSessionIdOnly(session, credentialRecord) ==
    [session EXCEPT !.currentChallenge = 0,
                    !.userId = credentialRecord.user_id]

\* req.session of POST /login/verify after lines 341-346
LoginSession(session, credentialRecord) ==
    [session EXCEPT !.currentChallenge = 0,
                    !.userId = credentialRecord.user_id,
                    !.username = credentialRecord.username]

\* POST /login/verify, lines 341-355: the UPDATE done, req.session drops the
\* challenge and takes the user, and is saved as the response ends.
LoginVerifySave(p) ==
    /\ last.op = "none"
    /\ inflight[p].op = "login/verify"
    /\ inflight[p].pc = "save"
    /\ LET s == inflight[p].sid
           credentialRecord == inflight[p].credentialRecord
       IN  /\ SaveSession(s, LoginSession(inflight[p].session,
                                          credentialRecord))
           /\ RespondUser("login/verify", s, inflight[p].body,
                          credentialRecord.user_id,
                          credentialRecord.username, credentialRecord.email)
           /\ okLog' = Append(okLog,
                  [sid |-> s,
                   challenge |-> inflight[p].session.currentChallenge,
                   credential_id |-> credentialRecord.credential_id,
                   counter |-> inflight[p].body.counter])
    /\ Leave(p)
    /\ UNCHANGED <<users, usersSeq, credentials, nonce, issued>>

\* ------------------------------------------------------ session management

\* GET /session: the handler answers from req.session without an await
GetSession(s) ==
    /\ last.op = "none"
    /\ Respond("session", s, NoBody, 200, sessions[s].userId)
    /\ UNCHANGED <<users, usersSeq, credentials, sessions, nonce, inflight,
                   okLog, issued>>

\* POST /logout: req.session.destroy removes the session from the store
Logout(s) ==
    /\ last.op = "none"
    /\ sessions' = [sessions EXCEPT ![s] = EmptySession]
    /\ Respond("logout", s, NoBody, 200, 0)
    /\ UNCHANGED <<users, usersSeq, credentials, nonce, inflight, okLog,
                   issued>>

\* ------------------------------------------------------------- API service

\* res.status(201).json(result.rows[0]) of POST /users
RespondCreated == [NoResponse EXCEPT !.op = "users", !.status = 201]

\* POST /users of the API service, lines 139-160: the body is validated and
\* one INSERT INTO users runs in a transaction of its own, committed as it
\* succeeds (201) and refused by the UNIQUE constraints of username and
\* email (error 23505, 409); the id is drawn from the sequence whether the
\* row is stored or not.  An INSERT that has to wait for a transaction in
\* progress leaves the request in flight.  The route has no session.
ApiCreateUser(username, email) ==
    /\ last.op = "none"
    /\ inflight["api"].op = "none"
    /\ LET body == [username |-> username, email |-> email]
           id == usersSeq + 1
           outcome == InsertUser("api", username, email, FALSE)
       IN  IF username = "" \/ email = ""
           THEN /\ Respond("users", "none", body, 400, 0)
                /\ UNCHANGED <<users, usersSeq, inflight>>
           ELSE /\ usersSeq < MaxUserSeq
                /\ usersSeq' = usersSeq + 1
                /\ IF outcome = "inserted"
                   THEN /\ users' = users \cup
                               {[id |-> id, username |-> username,
                                 email |-> email]}
                        /\ last' = [RespondCreated EXCEPT
                                        !.body = body, !.user = id,
                                        !.username = username,
                                        !.email = email]
                        /\ UNCHANGED inflight
                   ELSE IF outcome \in {"errorUsername", "errorEmail"}
                   THEN /\ Respond("users", "none", body, 409, 0)
                        /\ UNCHANGED <<users, inflight>>
                   ELSE /\ inflight' = [inflight EXCEPT !["api"] =
                               [IdleProc EXCEPT
                                   !.op = "users", !.pc = outcome,
                                   !.body = body,
                                   !.user = [id |-> id,
                                             username |-> username,
                                             email |-> email],
                                   !.tx = EntriesAfter(@, outcome,
                                                       username, email)]]
                        /\ UNCHANGED <<users, last>>
    /\ UNCHANGED <<credentials, sessions, nonce, okLog, issued>>

\* POST /users of the API service, lines 146-159: the INSERT that waited
\* goes on when the transaction it waited for has ended.
ApiInsertUser ==
    /\ last.op = "none"
    /\ inflight["api"].op = "users"
    /\ inflight["api"].pc \in {"waitUsername", "waitEmail"}
    /\ LET body == inflight["api"].body
           id == inflight["api"].user.id
           outcome == InsertUser("api", body.username, body.email,
                                 inflight["api"].pc = "waitEmail")
       IN  /\ outcome # inflight["api"].pc
           /\ IF outcome = "inserted"
              THEN /\ users' = users \cup {inflight["api"].user}
                   /\ last' = [RespondCreated EXCEPT
                                   !.body = body, !.user = id,
                                   !.username = body.username,
                                   !.email = body.email]
                   /\ Leave("api")
              ELSE IF outcome \in {"errorUsername", "errorEmail"}
              THEN /\ Respond("users", "none", body, 409, 0)
                   /\ Leave("api")
                   /\ UNCHANGED users
              ELSE /\ inflight' = [inflight EXCEPT
                          !["api"].pc = outcome,
                          !["api"].tx = EntriesAfter(@, outcome,
                                            body.username, body.email)]
                   /\ UNCHANGED <<users, last>>
    /\ UNCHANGED <<usersSeq, credentials, sessions, nonce, okLog, issued>>

\* ----------------------------------------------------------- specification

\* Every route with any input: one request of the auth service in flight
\* between its awaits, beside a request of the API service, while the
\* routes without an await are answered at any moment.  Two browsers
\* register, ask for their session and log out; the first one
\* authenticates.
Next ==
    \/ \E s \in Sessions, identity \in Identities :
          RegisterStartBegin("p1", s, identity[1], identity[2])
    \/ RegisterStartSelect("p1")
    \/ RegisterStartSave("p1")
    \/ \E s \in Sessions : RegisterVerifyBegin("p1", s)
    \/ \E credential \in RegistrationResponses :
          RegisterVerifyVerify("p1", credential)
    \/ RegisterVerifyConnect("p1")
    \/ RegisterVerifyBeginTransaction("p1")
    \/ RegisterVerifyInsertUser("p1")
    \/ RegisterVerifyInsertCredential("p1")
    \/ RegisterVerifyCommit("p1")
    \/ RegisterVerifyRollback("p1")
    \/ RegisterVerifySave("p1")
    \/ \E username \in Usernames : LoginStartBegin("p1", "s1", username)
    \/ LoginStartSelect("p1")
    \/ LoginStartSave("p1")
    \/ LoginVerifyBegin("p1", "s1")
    \/ \E credential \in AuthenticationResponses :
          LoginVerifySelect("p1", credential)
    \/ LoginVerifyVerify("p1")
    \/ LoginVerifyUpdate("p1")
    \/ LoginVerifySave("p1")
    \/ \E s \in Sessions : GetSession(s)
    \/ \E s \in Sessions : Logout(s)
    \/ \E identity \in Identities : ApiCreateUser(identity[1], identity[2])
    \/ ApiInsertUser
    \/ Sent

Spec == Init /\ [][Next]_vars

\* Two browsers register a new identity each, with a passkey of either
\* identifier, the steps of their requests interleaving: the transaction of
\* POST /register/verify meets both UNIQUE violations, with the rows of the
\* other transaction committed or still in progress.
NextReg ==
    \/ RegisterStartBegin("p1", "s1", "alice", "a@x")
    \/ \E identity \in {<<"alice", "a@x">>, <<"bob", "b@x">>} :
          RegisterStartBegin("p2", "s2", identity[1], identity[2])
    \/ \E p \in Procs : RegisterStartSelect(p)
    \/ \E p \in Procs : RegisterStartSave(p)
    \/ RegisterVerifyBegin("p1", "s1")
    \/ RegisterVerifyBegin("p2", "s2")
    \/ \E p \in Procs, ch \in 1..2, id \in CredIds, attOk \in BOOLEAN :
          RegisterVerifyVerify(p, [GoodRegistration(ch, id, 0)
                                      EXCEPT !.attOk = attOk])
    \/ \E p \in Procs : RegisterVerifyConnect(p)
    \/ \E p \in Procs : RegisterVerifyBeginTransaction(p)
    \/ \E p \in Procs : RegisterVerifyInsertUser(p)
    \/ \E p \in Procs : RegisterVerifyInsertCredential(p)
    \/ \E p \in Procs : RegisterVerifyCommit(p)
    \/ \E p \in Procs : RegisterVerifyRollback(p)
    \/ \E p \in Procs : RegisterVerifySave(p)
    \/ LoginStartBegin("p1", "s1", "alice")
    \/ LoginStartSelect("p1")
    \/ LoginStartSave("p1")
    \/ LoginVerifyBegin("p1", "s1")
    \/ LoginVerifySelect("p1",
          GoodAuthentication([form |-> "bytes", id |-> 1], 3, KeyOf(1),
                             MaxCounter))
    \/ LoginVerifyVerify("p1")
    \/ LoginVerifyUpdate("p1")
    \/ LoginVerifySave("p1")
    \/ \E s \in Sessions : GetSession(s)
    \/ \E s \in Sessions : Logout(s)
    \/ ApiCreateUser("bob", "b@x")
    \/ ApiInsertUser
    \/ Sent

SpecReg == Init /\ [][NextReg]_vars

\* Two browsers register identities that share a username or an email: both
\* pass POST /register/start while neither is stored, and the steps of
\* their verify requests interleave in any order, beside a POST /users for
\* one of the identities or for the email under a third username.
NextUniq ==
    \/ RegisterStartBegin("p1", "s1", "alice", "a@x")
    \/ \E identity \in {<<"bob", "a@x">>, <<"alice", "b@x">>} :
          RegisterStartBegin("p2", "s2", identity[1], identity[2])
    \/ \E p \in Procs : RegisterStartSelect(p)
    \/ \E p \in Procs : RegisterStartSave(p)
    \/ RegisterVerifyBegin("p1", "s1")
    \/ RegisterVerifyBegin("p2", "s2")
    \/ \E p \in Procs, ch \in 1..2, id \in CredIds :
          RegisterVerifyVerify(p, GoodRegistration(ch, id, 0))
    \/ \E p \in Procs : RegisterVerifyConnect(p)
    \/ \E p \in Procs : RegisterVerifyBeginTransaction(p)
    \/ \E p \in Procs : RegisterVerifyInsertUser(p)
    \/ \E p \in Procs : RegisterVerifyInsertCredential(p)
    \/ \E p \in Procs : RegisterVerifyCommit(p)
    \/ \E p \in Procs : RegisterVerifyRollback(p)
    \/ \E p \in Procs : RegisterVerifySave(p)
    \/ LoginStartBegin("p1", "s1", "alice")
    \/ LoginStartSelect("p1")
    \/ LoginStartSave("p1")
    \/ LoginVerifyBegin("p1", "s1")
    \/ LoginVerifySelect("p1",
          GoodAuthentication([form |-> "bytes", id |-> 1], 3, KeyOf(1),
                             MaxCounter))
    \/ LoginVerifyVerify("p1")
    \/ LoginVerifyUpdate("p1")
    \/ LoginVerifySave("p1")
    \/ \E s \in Sessions : GetSession(s)
    \/ \E s \in Sessions : Logout(s)
    \/ \E identity \in {<<"alice", "b@x">>, <<"carol", "a@x">>} :
          ApiCreateUser(identity[1], identity[2])
    \/ ApiInsertUser
    \/ Sent

SpecUniq == Init /\ [][NextUniq]_vars

\* Two users register a passkey each, from either session, and authenticate
\* on the second one, while the API service creates a user: the store
\* holds several rows when a request writes to it.
NextFrame ==
    \/ \E s \in Sessions, identity \in TwoIdentities :
          RegisterStartBegin("p1", s, identity[1], identity[2])
    \/ RegisterStartSelect("p1")
    \/ RegisterStartSave("p1")
    \/ \E s \in Sessions : RegisterVerifyBegin("p1", s)
    \/ \E ch \in Challenges, id \in CredIds, attOk \in BOOLEAN :
          RegisterVerifyVerify("p1", [GoodRegistration(ch, id, 0)
                                         EXCEPT !.attOk = attOk])
    \/ RegisterVerifyConnect("p1")
    \/ RegisterVerifyBeginTransaction("p1")
    \/ RegisterVerifyInsertUser("p1")
    \/ RegisterVerifyInsertCredential("p1")
    \/ RegisterVerifyCommit("p1")
    \/ RegisterVerifyRollback("p1")
    \/ RegisterVerifySave("p1")
    \/ \E username \in Usernames : LoginStartBegin("p1", "s2", username)
    \/ LoginStartSelect("p1")
    \/ LoginStartSave("p1")
    \/ LoginVerifyBegin("p1", "s2")
    \/ \E id \in CredIds, ch \in Challenges, ctr \in {0, MaxCounter} :
          LoginVerifySelect("p1",
              GoodAuthentication([form |-> "bytes", id |-> id], ch,
                                 KeyOf(id), ctr))
    \/ LoginVerifyVerify("p1")
    \/ LoginVerifyUpdate("p1")
    \/ LoginVerifySave("p1")
    \/ \E s \in Sessions : GetSession(s)
    \/ \E s \in Sessions : Logout(s)
    \/ ApiCreateUser("bob", "b@x")
    \/ ApiInsertUser
    \/ Sent

SpecFrame == Init /\ [][NextFrame]_vars

\* Two users register a passkey each on the first session; on the second
\* one every authentication starts with the username alice, so that each
\* challenge it holds was issued with the allow-list of alice.
NextAllow ==
    \/ \E identity \in {<<"alice", "a@x">>, <<"bob", "b@x">>} :
          RegisterStartBegin("p1", "s1", identity[1], identity[2])
    \/ RegisterStartSelect("p1")
    \/ RegisterStartSave("p1")
    \/ RegisterVerifyBegin("p1", "s1")
    \/ \E ch \in Challenges, id \in CredIds :
          RegisterVerifyVerify("p1", GoodRegistration(ch, id, 0))
    \/ RegisterVerifyConnect("p1")
    \/ RegisterVerifyBeginTransaction("p1")
    \/ RegisterVerifyInsertUser("p1")
    \/ RegisterVerifyInsertCredential("p1")
    \/ RegisterVerifyCommit("p1")
    \/ RegisterVerifyRollback("p1")
    \/ RegisterVerifySave("p1")
    \/ LoginStartBegin("p2", "s2", "alice")
    \/ LoginStartSelect("p2")
    \/ LoginStartSave("p2")
    \/ LoginVerifyBegin("p2", "s2")
    \/ \E id \in CredIds, ch \in Challenges, ctr \in Counters :
          LoginVerifySelect("p2",
              GoodAuthentication([form |-> "bytes", id |-> id], ch,
                                 KeyOf(id), ctr))
    \/ LoginVerifyVerify("p2")
    \/ LoginVerifyUpdate("p2")
    \/ LoginVerifySave("p2")
    \/ \E s \in Sessions : GetSession(s)
    \/ \E s \in Sessions : Logout(s)
    \/ ApiCreateUser("bob", "b@x")
    \/ ApiInsertUser
    \/ Sent

SpecAllow == Init /\ [][NextAllow]_vars

\* Two POST /login/verify requests in flight: one browser registers a
\* passkey, another starts authentications and sends two verify requests
\* whose steps interleave in any order.
NextRace ==
    \/ RegisterStartBegin("p1", "s1", "alice", "a@x")
    \/ RegisterStartSelect("p1")
    \/ RegisterStartSave("p1")
    \/ RegisterVerifyBegin("p1", "s1")
    \/ \E ch \in Challenges :
          RegisterVerifyVerify("p1", GoodRegistration(ch, 1, 0))
    \/ RegisterVerifyConnect("p1")
    \/ RegisterVerifyBeginTransaction("p1")
    \/ RegisterVerifyInsertUser("p1")
    \/ RegisterVerifyInsertCredential("p1")
    \/ RegisterVerifyCommit("p1")
    \/ RegisterVerifyRollback("p1")
    \/ RegisterVerifySave("p1")
    \/ \E username \in {"", "alice"} : LoginStartBegin("p1", "s2", username)
    \/ LoginStartSelect("p1")
    \/ LoginStartSave("p1")
    \/ \E p \in Procs : LoginVerifyBegin(p, "s2")
    \/ \E p \in Procs, ch \in Challenges, ctr \in Counters \ {0} :
          LoginVerifySelect(p,
              GoodAuthentication([form |-> "bytes", id |-> 1], ch, KeyOf(1), ctr))
    \/ \E p \in Procs : LoginVerifyVerify(p)
    \/ \E p \in Procs : LoginVerifyUpdate(p)
    \/ \E p \in Procs : LoginVerifySave(p)
    \/ \E s \in Sessions : GetSession(s)
    \/ \E s \in Sessions : Logout(s)
    \/ ApiCreateUser("alice", "a@x")
    \/ ApiInsertUser
    \/ Sent

SpecRace == Init /\ [][NextRace]_vars

\* Two requests in flight on one session, every route, with the inputs of
\* one user and one passkey: the steps of a request interleave with those
\* of another one that loaded the same session.
NextConc ==
    \/ \E p \in Procs, identity \in {<<"alice", "a@x">>, <<"", "a@x">>} :
          RegisterStartBegin(p, "s1", identity[1], identity[2])
    \/ \E p \in Procs : RegisterStartSelect(p)
    \/ \E p \in Procs : RegisterStartSave(p)
    \/ \E p \in Procs : RegisterVerifyBegin(p, "s1")
    \/ \E p \in Procs, ch \in Challenges, attOk \in BOOLEAN :
          RegisterVerifyVerify(p, [GoodRegistration(ch, 1, 0)
                                      EXCEPT !.attOk = attOk])
    \/ \E p \in Procs : RegisterVerifyConnect(p)
    \/ \E p \in Procs : RegisterVerifyBeginTransaction(p)
    \/ \E p \in Procs : RegisterVerifyInsertUser(p)
    \/ \E p \in Procs : RegisterVerifyInsertCredential(p)
    \/ \E p \in Procs : RegisterVerifyCommit(p)
    \/ \E p \in Procs : RegisterVerifyRollback(p)
    \/ \E p \in Procs : RegisterVerifySave(p)
    \/ \E p \in Procs, username \in {"", "alice"} :
          LoginStartBegin(p, "s1", username)
    \/ \E p \in Procs : LoginStartSelect(p)
    \/ \E p \in Procs : LoginStartSave(p)
    \/ \E p \in Procs : LoginVerifyBegin(p, "s1")
    \/ \E p \in Procs, id \in CredIds, ch \in Challenges,
             ctr \in {0, MaxCounter} :
          LoginVerifySelect(p,
              GoodAuthentication([form |-> "bytes", id |-> id], ch,
                                 KeyOf(1), ctr))
    \/ \E p \in Procs : LoginVerifyVerify(p)
    \/ \E p \in Procs : LoginVerifyUpdate(p)
    \/ \E p \in Procs : LoginVerifySave(p)
    \/ GetSession("s1")
    \/ Logout("s1")
    \/ ApiCreateUser("alice", "a@x")
    \/ ApiInsertUser
    \/ Sent

SpecConc == Init /\ [][NextConc]_vars
\* ------------------------------------------------------------------ claims

\* the step answers a request on route op
Answered(op) == last.op = "none" /\ last'.op = op

\* the step answers a verify request (either ceremony)
AnsweredVerify ==
    last.op = "none" /\ last'.op \in {"register/verify", "login/verify"}

\* request p of route op is at the await pc
At(p, op, pc) == inflight[p].op = op /\ inflight[p].pc = pc

\* request p of route op takes the step that follows the await pc
StepsFrom(p, op, pc) == At(p, op, pc) /\ inflight'[p] # inflight[p]

\* request p of route op ends in this step, answered
EndsFrom(p, op, pc) ==
    At(p, op, pc) /\ inflight'[p] = IdleProc /\ Answered(op)

\* two accepted responses are one assertion: one credential, one challenge,
\* one reported counter
SameAssertion(a, b) ==
    /\ a.credential_id = b.credential_id
    /\ a.challenge = b.challenge
    /\ a.counter = b.counter

\* C1: of the POST /login/verify requests that carry the same signed
\* assertion for the same credential, at most one is answered
\* {verified: true}, however their steps interleave.
C1_AtMostOneVerified ==
    \A i, j \in 1..Len(okLog) :
        i # j => ~SameAssertion(okLog[i], okLog[j])

\* C4: no step lowers the stored signature counter of a credential.
C4_CounterNeverDecreases ==
    [][\A c \in credentials : \A d \in credentials' :
          d.credential_id = c.credential_id => d.counter >= c.counter]_vars

\* the rows SELECTed for the credential a POST /login/verify body names
Found(body) == SelectCredential(bufferToBase64url(body.rawId))

\* request p passes verification in this step and goes on to the UPDATE
PassesVerification(p) ==
    At(p, "login/verify", "verify") /\ inflight'[p].pc = "update"

\* request p writes the counter in this step
WritesCounter(p) ==
    At(p, "login/verify", "update") /\ inflight'[p].pc = "save"

\* request p is answered by its last step, the one that saves the session
AnsweredBySave(p) == EndsFrom(p, "login/verify", "save")

\* the counter that the assertion of request p reports is not above the
\* counter stored for its credential
ReportsStaleCounter(p) ==
    \E c \in credentials :
        /\ c.credential_id = inflight[p].credentialRecord.credential_id
        /\ inflight[p].body.counter <= c.counter

\* C2: a POST /login/verify whose assertion reports a counter that is not
\* above the stored counter of its credential (two zero counters included)
\* is refused when it is verified, and leaves the stored counter as it was.
C2_StaleCounterRefused ==
    [][\A p \in Procs :
          /\ (StepsFrom(p, "login/verify", "verify") /\ ReportsStaleCounter(p))
             => /\ EndsFrom(p, "login/verify", "verify")
                /\ last'.status # 200
                /\ credentials' = credentials
          /\ (StepsFrom(p, "login/verify", "update") /\ ReportsStaleCounter(p))
             => credentials' = credentials]_vars

\* the body that request p's SELECT step reads in this step
BodyRead(p) ==
    IF inflight'[p].pc = "verify" THEN inflight'[p].body ELSE last'.body

\* the stored rows of the credential whose identifier the authenticator
\* returned in body
Known(body) == SelectCredential(body.rawId.id)

\* body is a valid assertion of credential row r for the session loaded by
\* request p: signed with r's key, made for the session's challenge, this
\* origin and this relying party, with the flags set
ValidAssertion(p, body, r) ==
    /\ body.sigKey = r.public_key
    /\ body.challenge = inflight[p].session.currentChallenge
    /\ body.origin = origin
    /\ body.rpId = rpID
    /\ body.flags

\* C3: a POST /login/verify on a session with an outstanding challenge whose
\* assertion names a known credential, is valid for it and for the session,
\* and reports a counter above the stored one finds the credential, passes
\* verification, writes exactly the reported counter to the credential's
\* row and is then answered {verified: true}.
C3_ValidAssertionAccepted ==
    [][\A p \in Procs :
        /\ (/\ StepsFrom(p, "login/verify", "select")
            /\ \E r \in Known(BodyRead(p)) :
                   /\ ValidAssertion(p, BodyRead(p), r)
                   /\ BodyRead(p).counter > r.counter)
           => (/\ inflight'[p].pc = "verify"
               /\ inflight'[p].credentialRecord \in Known(BodyRead(p)))
        /\ (/\ StepsFrom(p, "login/verify", "verify")
            /\ ValidAssertion(p, inflight[p].body,
                              inflight[p].credentialRecord)
            /\ ~ReportsStaleCounter(p))
           => PassesVerification(p)
        /\ StepsFrom(p, "login/verify", "update")
           => (/\ WritesCounter(p)
               /\ \E c \in credentials' :
                      /\ c.credential_id
                            = inflight[p].credentialRecord.credential_id
                      /\ c.counter = inflight[p].body.counter)
        /\ StepsFrom(p, "login/verify", "save")
           => (/\ AnsweredBySave(p)
               /\ last'.status = 200
               /\ last'.body = inflight[p].body
               /\ last'.user = inflight[p].credentialRecord.user_id)]_vars

\* every credential row references a row of users (the FOREIGN KEY)
CredentialsHaveUsers ==
    \A c \in credentials : \E u \in users : u.id = c.user_id

\* the step adds one user row and one credential row owned by that user
AddsUserWithCredential ==
    \E u \in users' \ users : \E c \in credentials' \ credentials :
        /\ users' = users \cup {u}
        /\ credentials' = credentials \cup {c}
        /\ c.user_id = u.id

\* request p commits its transaction in this step
Commits(p) ==
    At(p, "register/verify", "commit") /\ inflight'[p].pc = "save"

\* request p of POST /register/verify takes a step
RegisterVerifySteps(p) ==
    inflight[p].op = "register/verify" /\ inflight'[p] # inflight[p]

\* C5: of the steps of a POST /register/verify, only the COMMIT changes the
\* users or the credentials table, and it adds a user row together with its
\* credential row; a request that fails, at the verification or at either
\* INSERT, is answered before its COMMIT and has added nothing, the rows of
\* its transaction being dropped as the INSERT fails; a request that
\* committed is answered with success; and in every reachable state each
\* credential row references an existing user row.
C5_RegistrationAtomic ==
    /\ []CredentialsHaveUsers
    /\ [][\A p \in Procs :
            /\ RegisterVerifySteps(p)
               => IF Commits(p)
                  THEN AddsUserWithCredential
                  ELSE users' = users /\ credentials' = credentials
            /\ (RegisterVerifySteps(p) /\ inflight'[p].pc = "rollback")
               => inflight'[p].tx = NoEntries
            /\ (RegisterVerifySteps(p) /\ Answered("register/verify"))
               => /\ inflight'[p] = IdleProc
                  /\ last'.status = 200 <=> inflight[p].pc = "save"
                  /\ last'.status # 200
                     => inflight[p].pc \in {"verify", "rollback"}
            /\ StepsFrom(p, "register/verify", "rollback")
               => /\ EndsFrom(p, "register/verify", "rollback")
                  /\ last'.status = 500
            /\ StepsFrom(p, "register/verify", "save")
               => /\ EndsFrom(p, "register/verify", "save")
                  /\ last'.status = 200
                  /\ inflight[p].user \in users]_vars

\* C5 witness: a registration that passed verification was answered 500
\* because its credential identifier is already stored for another user; its
\* own user row, whose INSERT had succeeded and drawn the latest id, is not
\* in the table.
C5_Witness ==
    /\ last.op = "register/verify"
    /\ last.status = 500
    /\ last.body.challenge = sessions[last.sid].currentChallenge
    /\ last.body.origin = origin /\ last.body.rpId = rpID
    /\ last.body.flags /\ last.body.attOk
    /\ \E c \in credentials : c.credential_id = last.body.credentialID
    /\ existingUser(sessions[last.sid].registrationUser.username,
                    sessions[last.sid].registrationUser.email) = {}
    /\ \A u \in users : u.id # usersSeq
    /\ \A p \in Slots : inflight[p] = IdleProc
    /\ CredentialsHaveUsers

\* a verify request of route op arrives on session s in this step: it is
\* answered at once, or its session is loaded and it goes on
ArrivesVerify(p, op, s) ==
    /\ inflight[p].op = "none"
    /\ \/ inflight'[p].op = op /\ inflight'[p].sid = s
       \/ Answered(op) /\ last'.sid = s /\ last'.body = NoBody
             /\ inflight' = inflight

\* a POST /login/verify request arrives on session s in this step
ArrivesLoginVerify(p, s) == ArrivesVerify(p, "login/verify", s)

\* a POST /register/verify request arrives on session s in this step
ArrivesRegisterVerify(p, s) == ArrivesVerify(p, "register/verify", s)

\* C6: a verify request made on a session that holds no outstanding
\* challenge is answered 400 (StateError) at once, and changes neither the
\* users and credentials tables nor the session.
C6_VerifyWithoutChallenge ==
    [][\A s \in Sessions, p \in Procs :
          (/\ sessions[s].currentChallenge = 0
           /\ ArrivesLoginVerify(p, s) \/ ArrivesRegisterVerify(p, s))
          => (/\ AnsweredVerify
              /\ last'.status = 400
              /\ inflight' = inflight
              /\ users' = users /\ credentials' = credentials
              /\ sessions' = sessions)]_vars

\* C6 witness: a verify was answered 400 on a session whose challenge was
\* consumed by an earlier, successful verify.
C6_Witness ==
    /\ last.op \in {"register/verify", "login/verify"}
    /\ last.status = 400
    /\ last.body = NoBody
    /\ sessions[last.sid].currentChallenge = 0
    /\ sessions[last.sid].userId # 0
    /\ issued[last.sid] # 0

\* a registration response in order but for its challenge: made for this
\* origin and relying party, with the flags set and an attestation that
\* verifies
OtherwiseValid(body) ==
    /\ body # NoBody
    /\ body.origin = origin /\ body.rpId = rpID
    /\ body.flags /\ body.attOk

\* request p passes the verification of its registration response in this
\* step and goes on to the transaction
PassesRegistration(p) ==
    At(p, "register/verify", "verify") /\ inflight'[p].pc = "connect"

\* request p's INSERT INTO users runs in this step: it starts, or goes on
\* after it waited
InsertsUser(p) ==
    /\ inflight[p].op = "register/verify"
    /\ inflight[p].pc \in {"insertUser", "waitUsername", "waitEmail"}
    /\ inflight'[p] # inflight[p]

\* the identity pending in the session request p loaded
Pending(p) == inflight[p].session.registrationUser

\* C7: a registration response passes the verification of POST
\* /register/verify only if it is built on the challenge issued by the most
\* recent start on the request's session: a response built on a challenge
\* of an earlier start of the session or of another session is never
\* accepted, and no two sessions are issued the same challenge.
C7_AcceptedOnlyOnLatestChallenge ==
    [][/\ \A p \in Procs :
            PassesRegistration(p)
            => inflight'[p].body.challenge = issued[inflight[p].sid]
       /\ \A s \in Sessions : \A t \in Sessions \ {s} :
             issued'[s] # 0 => issued'[s] # issued'[t]]_vars

\* C8 as claimed: a verify that fails on a session holding an outstanding
\* challenge leaves the session without one.
C8_FailedVerifyConsumesChallenge ==
    [][(/\ AnsweredVerify
        /\ last'.status # 200
        /\ sessions[last'.sid].currentChallenge # 0)
       => sessions'[last'.sid].currentChallenge = 0]_vars

\* the step answers a start request (either ceremony) on session s with a
\* challenge
StartedOn(s) ==
    /\ last.op = "none"
    /\ last'.op \in {"register/start", "login/start"}
    /\ last'.status = 200
    /\ last'.sid = s

\* C9: a session holds at most one outstanding challenge: a start,
\* registration or authentication, overwrites what the session held with a
\* challenge never issued before, and once it has, no verify on the session
\* passes verification with a response built on a challenge the session was
\* issued before.
C9_SecondStartReplacesFirst ==
    [][\A s \in Sessions :
          /\ StartedOn(s) => /\ issued'[s] > nonce
                             /\ sessions'[s].currentChallenge = issued'[s]
          /\ sessions'[s].currentChallenge \in {0, issued'[s]}
          /\ \A p \in Procs :
                (/\ PassesRegistration(p) \/ PassesVerification(p)
                 /\ inflight[p].sid = s
                 /\ sessions[s].currentChallenge # 0)
                => inflight'[p].body.challenge
                      = sessions[s].currentChallenge]_vars

\* C10 as claimed: once a verify has succeeded, the session holds neither
\* Challenge Session field and holds the identity of the user.
C10_SuccessClearsChallengeSession ==
    [][(AnsweredVerify /\ last'.status = 200)
       => /\ sessions'[last'.sid].currentChallenge = 0
          /\ sessions'[last'.sid].registrationUser = NoUser
          /\ sessions'[last'.sid].userId # 0
          /\ sessions'[last'.sid].username # ""]_vars

\* what a destroyed session answers on s: GET /session reports no user, and
\* a verify of either ceremony that arrives is refused with status 400
DestroyedSessionAnswers(s) ==
    /\ (Answered("session") /\ last'.sid = s) => last'.user = 0
    /\ \A p \in Procs :
          (ArrivesRegisterVerify(p, s) \/ ArrivesLoginVerify(p, s))
          => AnsweredVerify /\ last'.status = 400

\* C11 as claimed: a logout empties the session whatever it held; from then
\* on GET /session reports no user and every verify answered on the session
\* is refused with status 400, and nothing but a start puts anything into
\* the session again.
C11_LogoutDestroysSession ==
    [][\A s \in Sessions :
          /\ (Answered("logout") /\ last'.sid = s)
             => last'.status = 200 /\ sessions'[s] = EmptySession
          /\ sessions[s] = EmptySession
             => /\ DestroyedSessionAnswers(s)
                /\ (AnsweredVerify /\ last'.sid = s) => last'.status = 400
                /\ sessions'[s] # EmptySession => StartedOn(s)]_vars

\* What does hold of C11: the same, but for the requests that loaded the
\* session before the logout and are still in flight: each is answered on
\* what it loaded and, when it succeeds, saves its copy of the session.
C11_LogoutDestroysSessionUnlessInFlight ==
    [][\A s \in Sessions :
          /\ (Answered("logout") /\ last'.sid = s)
             => last'.status = 200 /\ sessions'[s] = EmptySession
          /\ sessions[s] = EmptySession
             => /\ DestroyedSessionAnswers(s)
                /\ sessions'[s] # EmptySession
                   => \E p \in Procs :
                         /\ inflight[p].sid = s
                         /\ inflight[p].pc = "save"
                         /\ inflight'[p] = IdleProc]_vars

\* The case of C11 without a request in flight: a POST /register/verify is
\* refused with status 400 on the session whose latest start issued a
\* challenge, the session having been destroyed by a logout since.
C11_Witness ==
    /\ last.op = "register/verify"
    /\ last.status = 400
    /\ last.body = NoBody
    /\ issued[last.sid] # 0
    /\ sessions[last.sid] = EmptySession
    /\ \A p \in Procs : inflight[p] = IdleProc

\* the session holds the identity of a user: both fields, of one users row
BoundToUser(session) ==
    /\ session.userId # 0
    /\ session.username # ""
    /\ \E u \in users :
          u.id = session.userId /\ u.username = session.username

\* C12: a stored session holds userId and username both or neither, and
\* when it holds them they are the id and username of one row of users;
\* GET /session reports a user exactly for the sessions that hold them.
C12_NoHalfAuthenticatedSession ==
    /\ [](\A s \in Sessions :
             \/ BoundToUser(sessions[s])
             \/ sessions[s].userId = 0 /\ sessions[s].username = "")
    /\ [][\A s \in Sessions :
             (Answered("session") /\ last'.sid = s)
             => /\ last'.user # 0 <=> BoundToUser(sessions[s])
                /\ last'.user = sessions[s].userId]_vars

\* C12 witness: GET /session reports the user of a session that was bound
\* by an authentication.
C12_Witness ==
    /\ last.op = "session"
    /\ last.user # 0
    /\ \E i \in 1..Len(okLog) : okLog[i].sid = last.sid
    /\ BoundToUser(sessions[last.sid])

\* C13 as claimed: no stored session holds a Challenge Session field
\* (currentChallenge, registrationUser) together with an identity (userId,
\* username).
C13_DisjointLifetimes ==
    \A s \in Sessions :
        ~ (/\ sessions[s].currentChallenge # 0
              \/ sessions[s].registrationUser # NoUser
           /\ sessions[s].userId # 0 \/ sessions[s].username # "")

\* no two rows of users share a username or an email
UsersUnique ==
    \A u, v \in users :
        (u.username = v.username \/ u.email = v.email) => u = v

\* a stored user has the username or the email pending for request p
PendingIdentityStored(p) ==
    existingUser(inflight[p].session.registrationUser.username,
                 inflight[p].session.registrationUser.email) # {}

\* the rows of users that hold the username pending for request p
RowsOfUsername(p) == {u \in users : u.username = Pending(p).username}

\* the rows of users that hold the email pending for request p
RowsOfEmail(p) == {u \in users : u.email = Pending(p).email}

\* C14: usernames and emails stay unique however the steps of the verify
\* requests interleave, and no user row is ever removed or changed; the
\* INSERT of a verify whose pending username or email has been stored since
\* its start is refused, at once or after it waited for a transaction in
\* progress; an INSERT is refused only when the users table holds exactly
\* one row with the pending username or exactly one row with the pending
\* email, and no more than one of either; the refused request is rolled back
\* and answered 500, adds no row and saves no session: its session is not
\* authenticated by it.
C14_UniqueUnderConcurrentRegistration ==
    /\ []UsersUnique
    /\ [][/\ \A u \in users : u \in users'
          /\ \A p \in Procs :
             /\ (InsertsUser(p) /\ PendingIdentityStored(p))
                => inflight'[p].pc
                      \in {"rollback", "waitUsername", "waitEmail"}
             /\ (InsertsUser(p) /\ inflight'[p].pc = "rollback")
                => /\ Cardinality(RowsOfUsername(p)) <= 1
                   /\ Cardinality(RowsOfEmail(p)) <= 1
                   /\ \/ Cardinality(RowsOfUsername(p)) = 1
                      \/ Cardinality(RowsOfEmail(p)) = 1
                   /\ inflight'[p].tx = NoEntries
             /\ InsertsUser(p)
                => /\ users' = users
                   /\ credentials' = credentials
                   /\ sessions' = sessions
             /\ StepsFrom(p, "register/verify", "rollback")
                => /\ EndsFrom(p, "register/verify", "rollback")
                   /\ last'.status = 500
                   /\ users' = users
                   /\ credentials' = credentials
                   /\ sessions' = sessions]_vars

\* C14 witness: two sessions started registrations sharing an email under
\* different usernames; one verify has created its user and the other, with
\* a valid response for a credential not yet stored, was answered 500; both
\* requests are over and exactly one row holds the email.
C14_Witness ==
    /\ last.op = "register/verify"
    /\ last.status = 500
    /\ OtherwiseValid(last.body)
    /\ last.body.challenge = sessions[last.sid].currentChallenge
    /\ \A c \in credentials : c.credential_id # last.body.credentialID
    /\ \E t \in Sessions \ {last.sid}, u \in users :
          /\ sessions[t].userId = u.id
          /\ u.email = sessions[last.sid].registrationUser.email
          /\ u.username # sessions[last.sid].registrationUser.username
    /\ Cardinality({u \in users :
          u.email = sessions[last.sid].registrationUser.email}) = 1
    /\ sessions[last.sid].userId = 0
    /\ \A p \in Slots : inflight[p] = IdleProc

\* C15: a POST /register/start with a username and an email is answered 409
\* exactly when its SELECT finds a user with that username or with that
\* email, and then it saves no session and changes no table.
C15_StartConflict ==
    [][\A p \in Procs :
          StepsFrom(p, "register/start", "select")
          => IF existingUser(inflight[p].body.username,
                             inflight[p].body.email) # {}
             THEN /\ EndsFrom(p, "register/start", "select")
                  /\ last'.status = 409
                  /\ last'.sid = inflight[p].sid
                  /\ sessions' = sessions
                  /\ users' = users
                  /\ credentials' = credentials
                  /\ nonce' = nonce
             ELSE /\ inflight'[p].pc = "save"
                  /\ last' = last]_vars

\* C15 witness: a start is answered 409 for a stored email under a username
\* that is not stored, on a session that holds an outstanding challenge.
C15_Witness ==
    /\ last.op = "register/start"
    /\ last.status = 409
    /\ \A u \in users : u.username # last.body.username
    /\ \E u \in users : u.email = last.body.email
    /\ sessions[last.sid].currentChallenge # 0
    /\ sessions[last.sid].registrationUser # NoUser

\* C16: a POST /register/start without a username or without an email is
\* answered 400 at once, whatever the store holds for the field that was
\* given; the store and the session are as before and no challenge is
\* issued.
C16_StartValidation ==
    [][\A s \in Sessions :
          (/\ Answered("register/start") /\ last'.sid = s
           /\ last'.body.username = "" \/ last'.body.email = "")
          => /\ last'.status = 400
             /\ inflight' = inflight
             /\ sessions' = sessions
             /\ users' = users
             /\ credentials' = credentials
             /\ nonce' = nonce]_vars

\* C16 witness: a start without a username is answered 400 although its
\* email is stored (a start with both fields would be answered 409), on a
\* session that holds an outstanding challenge.
C16_Witness ==
    /\ last.op = "register/start"
    /\ last.status = 400
    /\ last.body.username = ""
    /\ \E u \in users : u.email = last.body.email
    /\ sessions[last.sid].currentChallenge # 0

\* C17 as claimed: a POST /login/start with a username is answered 404
\* exactly when no user of that name is stored, and then the session is as
\* before.
C17_LoginStartUserNotFound ==
    [][\A s \in Sessions :
          (/\ Answered("login/start") /\ last'.sid = s
           /\ last'.body.username # "")
          => /\ last'.status = 404
                <=> ~ \E u \in users : u.username = last'.body.username
             /\ last'.status = 404 => sessions' = sessions]_vars

\* the identifiers of the credentials of the users named username
CredentialIdsOf(username) ==
    {c.credential_id : c \in
        {d \in credentials :
            \E u \in users : u.id = d.user_id /\ u.username = username}}

\* C18 as claimed: a POST /login/start with the username of a stored user is
\* answered with options whose allow-list is the set of that user's
\* credential identifiers, one without a username with options without an
\* allow-list, and both store a challenge never issued before.
C18_AllowListOfUser ==
    [][\A s \in Sessions :
          (/\ Answered("login/start") /\ last'.sid = s
           /\ \/ last'.body.username = ""
              \/ \E u \in users : u.username = last'.body.username)
          => /\ last'.status = 200
             /\ IF last'.body.username = ""
                THEN ~last'.allowCredentials.given
                ELSE /\ last'.allowCredentials.given
                     /\ last'.allowCredentials.ids
                           = CredentialIdsOf(last'.body.username)
             /\ nonce' > nonce
             /\ sessions'[s].currentChallenge = nonce']_vars

\* no stored credential has the identifier the assertion names
UnknownCredential(body) ==
    \A c \in credentials : c.credential_id # body.rawId.id

\* C19: a POST /login/verify on a session with an outstanding challenge
\* whose assertion names a credential identifier that is not stored is
\* answered 404; no credential row changes and no session is saved.
C19_UnknownCredentialNotFound ==
    [][\A p \in Procs :
          (/\ StepsFrom(p, "login/verify", "select")
           /\ UnknownCredential(BodyRead(p)))
          => /\ EndsFrom(p, "login/verify", "select")
             /\ last'.status = 404
             /\ last'.sid = inflight[p].sid
             /\ credentials' = credentials
             /\ sessions' = sessions]_vars

\* C19 witness: an assertion in order for the session's outstanding
\* challenge but naming an identifier that is not among the stored ones was
\* answered 404, and the session is not authenticated.
C19_Witness ==
    /\ last.op = "login/verify"
    /\ last.status = 404
    /\ last.body.rawId.form = "bytes"
    /\ credentials # {}
    /\ UnknownCredential(last.body)
    /\ last.body.challenge = sessions[last.sid].currentChallenge
    /\ last.body.origin = origin /\ last.body.rpId = rpID
    /\ sessions[last.sid].userId = 0

\* row d is row c but for its counter
SameButCounter(c, d) ==
    /\ d.user_id = c.user_id
    /\ d.credential_id = c.credential_id
    /\ d.public_key = c.public_key

\* the step leaves users alone and, in credentials, every row but the one
\* of identifier id
ChangesOnlyCounterOf(id) ==
    /\ users' = users
    /\ Cardinality(credentials') = Cardinality(credentials)
    /\ \A c \in credentials : c.credential_id # id => c \in credentials'

\* the step of the API service that stores a user: one row more in users
ApiAddsUser ==
    /\ Answered("users") /\ last'.status = 201
    /\ credentials' = credentials
    /\ \E u \in users' \ users : users' = users \cup {u}

\* C20: a step of the auth service changes the users or the credentials
\* table only when a POST /register/verify commits, adding one user row and
\* one credential row of that user, or when a POST /login/verify that
\* passed verification writes its counter, changing at most the counter of
\* the credential it had looked up, and each of these requests is then
\* answered with success; besides them only POST /users of the API service
\* adds a user row; no step removes or changes a user row or changes the
\* owner, identifier or public key of a credential row.
C20_StoreFrame ==
    [][/\ (users' # users \/ credentials' # credentials)
          => \/ \E p \in Procs : Commits(p) /\ AddsUserWithCredential
             \/ \E p \in Procs :
                   /\ WritesCounter(p)
                   /\ ChangesOnlyCounterOf(
                          inflight[p].credentialRecord.credential_id)
             \/ ApiAddsUser
       /\ \A p \in Procs :
             /\ Commits(p) => AddsUserWithCredential
             /\ (\/ StepsFrom(p, "register/verify", "save")
                 \/ StepsFrom(p, "login/verify", "save"))
                => /\ inflight'[p] = IdleProc
                   /\ AnsweredVerify /\ last'.status = 200
             /\ (AnsweredVerify /\ last'.status = 200 /\ inflight'[p] # inflight[p])
                => inflight[p].pc = "save"
       /\ users \subseteq users'
       /\ \A c \in credentials :
             \E d \in credentials' : SameButCounter(c, d)]_vars

\* C20 witness: with the credentials of two users stored, an authentication
\* was answered with success and has raised the counter of its credential;
\* the other row still has the counter it was registered with.
C20_Witness ==
    /\ last.op = "login/verify"
    /\ last.status = 200
    /\ Cardinality(credentials) = 2
    /\ \E c, d \in credentials :
          /\ c.credential_id = last.body.rawId.id
          /\ c.counter = MaxCounter
          /\ d.user_id # c.user_id
          /\ d.counter = 0

\* C21: a POST /register/start that stores a pending identity stores the
\* username and email of its body; a POST /register/verify that commits
\* adds one user row with the username and email pending in its session
\* and one credential row of that user with the identifier, the public key
\* and the counter the response reported, and is answered with the id,
\* username and email of that user row.
C21_RegistrationCreatesUserAndCredential ==
    [][/\ \A s \in Sessions :
             (Answered("register/start") /\ last'.sid = s
                /\ last'.status = 200)
             => /\ sessions'[s].registrationUser.username
                      = last'.body.username
                /\ sessions'[s].registrationUser.email = last'.body.email
       /\ \A p \in Procs :
             /\ Commits(p)
                => \E u \in users' \ users :
                   \E c \in credentials' \ credentials :
                      /\ users' = users \cup {u}
                      /\ credentials' = credentials \cup {c}
                      /\ u.username
                            = inflight[p].session.registrationUser.username
                      /\ u.email = inflight[p].session.registrationUser.email
                      /\ c.user_id = u.id
                      /\ c.credential_id = inflight'[p].body.credentialID
                      /\ c.public_key = inflight'[p].body.credentialPublicKey
                      /\ c.counter = inflight'[p].body.counter
                      /\ inflight'[p].user = u
             /\ StepsFrom(p, "register/verify", "save")
                => /\ EndsFrom(p, "register/verify", "save")
                   /\ last'.status = 200
                   /\ last'.body = inflight[p].body
                   /\ last'.user = inflight[p].user.id
                   /\ last'.username = inflight[p].user.username
                   /\ last'.email = inflight[p].user.email
                   /\ inflight[p].user \in users
             /\ (Answered("register/verify") /\ last'.status = 200
                   /\ inflight'[p] # inflight[p])
                => At(p, "register/verify", "save")]_vars

\* C21 witness: a registration whose authenticator reported the largest
\* counter was answered with success and names the new user, whose
\* credential row holds that counter.
C21_Witness ==
    /\ last.op = "register/verify"
    /\ last.status = 200
    /\ last.body.counter = MaxCounter
    /\ last.username = "alice"
    /\ last.email = "a@x"
    /\ \E u \in users, c \in credentials :
          /\ u.id = last.user /\ u.username = "alice"
          /\ c.user_id = u.id /\ c.counter = MaxCounter

\* the challenge the session holds was stored by POST /register/start: that
\* handler stores the challenge together with a pending identity whose
\* generated userId is as fresh as the challenge (in this model the same
\* number), and no other handler writes registrationUser
StoredByRegisterStart(session) ==
    /\ session.currentChallenge # 0
    /\ session.registrationUser.userId = session.currentChallenge

\* C22 as claimed: a POST /register/verify succeeds only against a challenge
\* stored by POST /register/start, and a POST /login/verify succeeds only
\* against a challenge stored by POST /login/start.
C22_ChallengeBoundToCeremony ==
    [][\A p \in Procs :
          /\ EndsFrom(p, "register/verify", "save")
             => StoredByRegisterStart(inflight[p].session)
          /\ AnsweredBySave(p)
             => ~StoredByRegisterStart(inflight[p].session)]_vars

\* C23: a POST /login/verify answered with success leaves the session bound
\* to the one user who owns the credential the assertion names and was
\* verified against, and names that user in its answer, whatever username
\* the start that issued the challenge was given.
C23_BoundToCredentialOwner ==
    [][\A p \in Procs :
          (AnsweredBySave(p) /\ last'.status = 200)
          => \E c \in credentials : \E u \in users :
                /\ c.credential_id = bufferToBase64url(last'.body.rawId)
                /\ c.public_key = last'.body.sigKey
                /\ u.id = c.user_id
                /\ sessions'[last'.sid].userId = u.id
                /\ sessions'[last'.sid].username = u.username
                /\ last'.user = u.id
                /\ last'.username = u.username]_vars

\* C23 witness: on the session whose every challenge was issued by a start
\* naming alice, with the identifiers of alice's credentials as allow-list,
\* an assertion of bob's credential was answered with success and the
\* session is bound to bob.
C23_Witness ==
    /\ last.op = "login/verify"
    /\ last.status = 200
    /\ last.sid = "s2"
    /\ last.username = "bob"
    /\ sessions["s2"].username = "bob"
    /\ \E c \in credentials : \E u \in users :
          /\ c.credential_id = last.body.rawId.id
          /\ u.id = c.user_id /\ u.username = "bob"
          /\ sessions["s2"].userId = u.id
    /\ SelectUserCredentials("alice") # {}
====
